---- MODULE Spec2Model ----
(***************************************************************************)
(* A model of std-build: the manifest transformer (PackageJson), the path  *)
(* resolver (PackageDirectory), the filesystem adapter (FileSystem), the   *)
(* bundler invoker (SourceCode) and the build orchestrator                 *)
(* (PackageBuilder).                                                       *)
(*                                                                         *)
(* Strings of the program are sequences of tokens.  The tokens "/", "."    *)
(* and "*" stand for those characters; every other token stands for a run  *)
(* of ordinary characters.  A dependency name is written one character per *)
(* token so that a glob can match part of it.                              *)
(***************************************************************************)
EXTENDS Integers, Sequences, FiniteSets, TLC

\* ------------------------------------------------------------------ bounds

\* Longest raw `main` string (in tokens) the manifest inputs range over.
MaxMainLen == 4

\* Longest externals pattern list the manifest inputs range over.
MaxExternals == 1

\* Longest copy list a build is configured with.
MaxCopy == 2

\* ----------------------------------------------------------- small helpers

Max(S) == CHOOSE x \in S : \A y \in S : y <= x

Range(s) == { s[i] : i \in 1..Len(s) }

Last(s) == s[Len(s)]

\* All sequences over S of length at most n.
SeqsUpTo(S, n) == UNION { [1..k -> S] : k \in 0..n }

\* ------------------------------------------------------------ node:path

Slash == "/"
Dot == "."

\* path.parse (posix): the directory, the base name without its extension
\* and the extension of a path.
Parse(p) ==
  IF p = <<>> THEN [dir |-> <<>>, name |-> <<>>, ext |-> <<>>]
  ELSE
    LET n == Len(p)
        isAbsolute == p[1] = Slash
        lo == IF isAbsolute THEN 2 ELSE 1
        nonSlash == { i \in lo..n : p[i] # Slash }
    IN IF nonSlash = {}
       THEN [dir |-> IF isAbsolute THEN <<Slash>> ELSE <<>>,
             name |-> <<>>, ext |-> <<>>]
       ELSE
         LET end == Max(nonSlash)
             slashes == { i \in lo..end : p[i] = Slash }
             startPart == IF slashes = {} THEN 0 ELSE Max(slashes)
             first == IF slashes = {} THEN lo ELSE startPart + 1
             dots == { i \in first..end : p[i] = Dot }
             startDot == IF dots = {} THEN 0 ELSE Max(dots)
             preDotState == IF dots = {} \/ startDot = first THEN 0
                            ELSE IF p[first] = Dot THEN 1 ELSE -1
             noExt == \/ dots = {}
                      \/ preDotState = 0
                      \/ /\ preDotState = 1
                         /\ startDot = end
                         /\ startDot - 1 = startPart + 1
             dir == IF startPart > 0 THEN SubSeq(p, 1, startPart - 1)
                    ELSE IF isAbsolute THEN <<Slash>> ELSE <<>>
         IN IF noExt
            THEN [dir |-> dir, name |-> SubSeq(p, first, end), ext |-> <<>>]
            ELSE [dir |-> dir, name |-> SubSeq(p, first, startDot - 1),
                  ext |-> SubSeq(p, startDot, end)]

\* The "/"-separated segments of a path.
RECURSIVE Split(_)
Split(p) ==
  IF p = <<>> THEN << <<>> >>
  ELSE LET rest == Split(Tail(p))
       IN IF Head(p) = Slash THEN << <<>> >> \o rest
          ELSE << <<Head(p)>> \o Head(rest) >> \o Tail(rest)

\* Segments joined by "/".
RECURSIVE JoinSegs(_)
JoinSegs(segs) ==
  IF segs = <<>> THEN <<>>
  ELSE IF Len(segs) = 1 THEN segs[1]
  ELSE segs[1] \o <<Slash>> \o JoinSegs(Tail(segs))

\* normalizeString: drops empty and "." segments and resolves "..".
RECURSIVE NormalizeSegs(_, _, _)
NormalizeSegs(segs, acc, allowAboveRoot) ==
  IF segs = <<>> THEN acc
  ELSE
    LET s == Head(segs)
        rest == Tail(segs)
    IN IF s = <<>> \/ s = <<Dot>>
       THEN NormalizeSegs(rest, acc, allowAboveRoot)
       ELSE IF s = <<Dot, Dot>>
       THEN IF acc # <<>> /\ Last(acc) # <<Dot, Dot>>
            THEN NormalizeSegs(rest, SubSeq(acc, 1, Len(acc) - 1), allowAboveRoot)
            ELSE IF allowAboveRoot
            THEN NormalizeSegs(rest, Append(acc, s), allowAboveRoot)
            ELSE NormalizeSegs(rest, acc, allowAboveRoot)
       ELSE NormalizeSegs(rest, Append(acc, s), allowAboveRoot)

\* path.normalize (posix).
Normalize(p) ==
  IF p = <<>> THEN <<Dot>>
  ELSE
    LET isAbsolute == p[1] = Slash
        trailingSeparator == Last(p) = Slash
        body == JoinSegs(NormalizeSegs(Split(p), <<>>, ~isAbsolute))
    IN IF body = <<>>
       THEN IF isAbsolute THEN <<Slash>>
            ELSE IF trailingSeparator THEN <<Dot, Slash>> ELSE <<Dot>>
       ELSE (IF isAbsolute THEN <<Slash>> ELSE <<>>)
            \o body
            \o (IF trailingSeparator THEN <<Slash>> ELSE <<>>)

\* path.join (posix): the non-empty parts joined by "/" and normalized.
Join(parts) ==
  LET joined == JoinSegs(SelectSeq(parts, LAMBDA x : x # <<>>))
  IN IF joined = <<>> THEN <<Dot>> ELSE Normalize(joined)

\* path.dirname (posix).
Dirname(p) ==
  IF p = <<>> THEN <<Dot>>
  ELSE
    LET hasRoot == p[1] = Slash
        ends == { i \in 2..Len(p) :
                    p[i] = Slash /\ \E j \in (i + 1)..Len(p) : p[j] # Slash }
    IN IF ends = {} THEN (IF hasRoot THEN <<Slash>> ELSE <<Dot>>)
       ELSE IF hasRoot /\ Max(ends) = 2 THEN <<Slash, Slash>>
       ELSE SubSeq(p, 1, Max(ends) - 1)

\* String.replace(/\\/g, "/").
ReplaceBackslashes(p) == [i \in 1..Len(p) |-> IF p[i] = "\\" THEN Slash ELSE p[i]]

\* package-directory.ts path(...fp).
path(parts) == ReplaceBackslashes(Normalize(Join(parts)))

\* ------------------------------------------------------- JSON values

\* A scalar JSON value: a string (its tokens in v), a number, or a missing
\* field.
Str(v) == [t |-> "str", v |-> v]
Num == [t |-> "num", v |-> <<"7">>]
Undefined == [t |-> "undef", v |-> <<>>]

\* An object value is its entries <<key, value>> in insertion order; any
\* other value of a field that should hold an object has no entries.
Obj(entries) == [t |-> "obj", e |-> entries]
NotObj(t) == [t |-> t, e |-> <<>>]

\* @std-types/is-string and @std-types/is-object.
isString(x) == x.t = "str"
isObject(x) == x.t = "obj"

\* Object.keys and Object.entries.
ObjectKeys(o) == [i \in 1..Len(o.e) |-> o.e[i][1]]
ObjectEntries(o) == o.e

\* Object.fromEntries, also an object literal built from spreads: a key keeps
\* the place of its first entry and takes the value of its last.
ObjectFromEntries(es) ==
  LET firsts == { i \in 1..Len(es) : \A j \in 1..(i - 1) : es[j][1] # es[i][1] }
      lastOf(k) == Max({ j \in 1..Len(es) : es[j][1] = k })
      pick == SelectSeq([i \in 1..Len(es) |-> i], LAMBDA i : i \in firsts)
  IN [i \in 1..Len(pick) |-> <<es[pick[i]][1], es[lastOf(es[pick[i]][1])][2]>>]

\* Array.from(new Set(xs)): the first occurrence of every element, in order.
ArrayFromSet(xs) ==
  LET firsts == { i \in 1..Len(xs) : \A j \in 1..(i - 1) : xs[j] # xs[i] }
      pick == SelectSeq([i \in 1..Len(xs) |-> i], LAMBDA i : i \in firsts)
  IN [i \in 1..Len(pick) |-> xs[pick[i]]]

\* ------------------------------------------------- dependency names

\* The dependency names of the model, in collation order.
Collation == << <<"a">>, <<"a", "b">>, <<"b">> >>

DepNames == Range(Collation)

\* String.prototype.localeCompare on dependency names.
localeCompare(a, b) ==
  (CHOOSE i \in 1..Len(Collation) : Collation[i] = a)
  - (CHOOSE i \in 1..Len(Collation) : Collation[i] = b)

\* Array.prototype.sort((a, b) => a.localeCompare(b)) on names: stable.
RECURSIVE SortNames(_)
SortNames(xs) ==
  IF xs = <<>> THEN <<>>
  ELSE LET x == Last(xs)
           front == SortNames(SubSeq(xs, 1, Len(xs) - 1))
           le == SelectSeq(front, LAMBDA y : localeCompare(y, x) <= 0)
           gt == SelectSeq(front, LAMBDA y : localeCompare(y, x) > 0)
       IN le \o <<x>> \o gt

\* Array.prototype.sort(([a], [b]) => a.localeCompare(b)) on entries: stable.
RECURSIVE SortEntries(_)
SortEntries(es) ==
  IF es = <<>> THEN <<>>
  ELSE LET x == Last(es)
           front == SortEntries(SubSeq(es, 1, Len(es) - 1))
           le == SelectSeq(front, LAMBDA y : localeCompare(y[1], x[1]) <= 0)
           gt == SelectSeq(front, LAMBDA y : localeCompare(y[1], x[1]) > 0)
       IN le \o <<x>> \o gt

\* globToRegExp(pattern).test(name): "*" matches any run of characters, every
\* other character of the pattern matches itself, the match is anchored.
RECURSIVE RegExpTest(_, _)
RegExpTest(pattern, name) ==
  IF pattern = <<>> THEN name = <<>>
  ELSE IF Head(pattern) = "*"
  THEN \E k \in 0..Len(name) :
         RegExpTest(Tail(pattern), SubSeq(name, k + 1, Len(name)))
  ELSE /\ name # <<>>
       /\ Head(name) = Head(pattern)
       /\ RegExpTest(Tail(pattern), Tail(name))

\* ----------------------------------------------------- PackageJson

\* PackageJson.#isExternalDependency.
isExternalDependency(externals, dependency) ==
  \E i \in 1..Len(externals) : RegExpTest(externals[i], dependency)

\* PackageJson.entryPoint.
entryPoint(json) ==
  IF ~isString(json.main) \/ Len(json.main.v) = 0
  THEN <<"src", "/", "index", ".", "ts">>
  ELSE json.main.v

\* PackageJson.module.
module(json) ==
  LET parsedEntrypoint == Parse(entryPoint(json))
  IN parsedEntrypoint.dir \o <<Slash>> \o parsedEntrypoint.name \o <<".", "mjs">>

\* PackageJson.main.
main(json) ==
  LET parsedEntrypoint == Parse(entryPoint(json))
  IN parsedEntrypoint.dir \o <<Slash>> \o parsedEntrypoint.name \o <<".", "cjs">>

\* PackageJson.types.
types(json) ==
  LET parsedEntrypoint == Parse(entryPoint(json))
  IN parsedEntrypoint.dir \o <<Slash>> \o parsedEntrypoint.name
     \o <<".", "d", ".", "ts">>

\* The entries PackageJson.dependencies keeps: string name and string
\* version.
StringEntries(es) == SelectSeq(es, LAMBDA tuple : isString(tuple[2]))

\* A variant of computeDependencies that keeps the entries whose version is
\* not a string.
computeDependencies_anyVersion(json, externals) ==
  ObjectFromEntries(
    SortEntries(
      SelectSeq(ObjectEntries(json.dependencies),
                LAMBDA tuple : isExternalDependency(externals, tuple[1]))))

\* The value PackageJson.dependencies computes from an object-valued raw
\* `dependencies`.
computeDependencies(json, externals) ==
  ObjectFromEntries(
    SortEntries(
      SelectSeq(StringEntries(ObjectEntries(json.dependencies)),
                LAMBDA tuple : isExternalDependency(externals, tuple[1]))))

\* The value PackageJson.peerDependencies computes from an object-valued raw
\* `peerDependencies`.
computePeerDependencies(json) ==
  ObjectFromEntries(SortEntries(StringEntries(ObjectEntries(json.peerDependencies))))

\* A variant of computeExternalDependencies that does not pass the names
\* through a Set.
computeExternalDependencies_noSet(json, externals) ==
  LET guaranteedExternals ==
        ObjectKeys(Obj(ObjectFromEntries(
          (IF isObject(json.peerDependencies)
           THEN ObjectEntries(json.peerDependencies) ELSE <<>>)
          \o (IF isObject(json.devDependencies)
              THEN ObjectEntries(json.devDependencies) ELSE <<>>))))
      conditionalExternals ==
        SelectSeq(ObjectKeys(json.dependencies),
                  LAMBDA packageName : isExternalDependency(externals, packageName))
  IN SortNames(guaranteedExternals \o conditionalExternals)

\* The list PackageJson.externalDependencies computes.
computeExternalDependencies(json, externals) ==
  LET guaranteedExternals ==
        ObjectKeys(Obj(ObjectFromEntries(
          (IF isObject(json.peerDependencies)
           THEN ObjectEntries(json.peerDependencies) ELSE <<>>)
          \o (IF isObject(json.devDependencies)
              THEN ObjectEntries(json.devDependencies) ELSE <<>>))))
      conditionalExternals ==
        SelectSeq(ObjectKeys(json.dependencies),
                  LAMBDA packageName : isExternalDependency(externals, packageName))
  IN SortNames(ArrayFromSet(guaranteedExternals \o conditionalExternals))

\* String(x ?? "").
StringOrEmpty(x) == IF x.t = "undef" THEN <<>> ELSE x.v

\* PackageJson.version.
version(json) == IF ~isString(json.version) THEN <<"0", ".", "0", ".", "0">>
                 ELSE json.version.v

\* ------------------------------------------------------------- state

VARIABLES
  json,        \* PackageJson.#json: the raw manifest
  externals,   \* PackageJson.#externals: the externals patterns
  cache,       \* PackageJson.#dependencies, #peerDependencies, #externalDependencies
  ret,         \* what the last PackageJson getter or build() call returned
  first,       \* what each derived attribute and build() returned when first
               \* accessed
  json0,       \* the raw manifest as it was passed to the constructor
  pc,          \* where PackageBuilder.build() stands
  config,      \* the build's configuration: manifest source, copy list and
               \* bundler options
  pkgFiles,    \* the files that exist under the package root
  fs,          \* the output tree: its folders and its files with their contents
  fs0,         \* the output tree before the build
  fsAfterSrc,  \* the output tree when the create-src step has completed
  ops,         \* the operations the build's steps have performed, in order, and
               \* whether each succeeded (the copy step: its start)
  tasks,       \* the copy step's copy operations
  calls,       \* the configurations handed to the bundler, in order
  error        \* the step whose error build() rejected with, "" if none

manifestVars == <<json, externals, cache, ret, first, json0>>
buildVars == <<pc, config, pkgFiles, fs, fs0, fsAfterSrc, ops, tasks, calls,
               error>>
vars == <<json, externals, cache, ret, first, json0,
          pc, config, pkgFiles, fs, fs0, fsAfterSrc, ops, tasks, calls, error>>

\* ------------------------------------------- PackageJson: the inputs

Absent == [t |-> "absent", v |-> <<>>]

\* The order in which the raw objects of the model hold their keys.
InsertionOrder == << <<"b">>, <<"a", "b">>, <<"a">> >>

\* The object that holds f[n] under every name n for which f[n] is present.
ObjectOf(f) ==
  LET keys == SelectSeq(InsertionOrder,
                        LAMBDA n : n \in DOMAIN f /\ f[n] # Absent)
  IN Obj([i \in 1..Len(keys) |-> <<keys[i], f[keys[i]]>>])

RawObjects(names, values) ==
  { ObjectOf(f) : f \in [names -> values \cup {Absent}] }

MainValues ==
  {Undefined, Num} \cup { Str(s) : s \in SeqsUpTo({"a", Dot, Slash}, MaxMainLen) }

\* The raw `dependencies`: an object, missing, or a number (a value without
\* keys of its own).
DependenciesValues ==
  RawObjects(DepNames, {Str(<<"1">>), Num}) \cup {NotObj("undef"), NotObj("num")}

PeerDependenciesValues ==
  RawObjects({<<"a">>, <<"b">>}, {Str(<<"2">>)}) \cup {NotObj("undef")}

DevDependenciesValues ==
  RawObjects({<<"a", "b">>, <<"b">>}, {Str(<<"3">>)}) \cup {NotObj("undef")}

Patterns == { <<"*">>, <<"a", "*">>, <<"b">> }

Manifest(m, deps, peer, dev) ==
  [name |-> Str(<<"pkg">>), description |-> Undefined, version |-> Undefined,
   main |-> m, dependencies |-> deps, peerDependencies |-> peer,
   devDependencies |-> dev]

\* The manifest of the package a build runs on.
BuildManifest ==
  Manifest(Str(<<"src", "/", "index", ".", "ts">>),
           ObjectOf([n \in {<<"a">>} |-> Str(<<"1">>)]),
           ObjectOf([n \in {<<"b">>} |-> Str(<<"2">>)]),
           NotObj("undef"))

Unset == [set |-> FALSE, val |-> <<>>]
Cached(v) == [set |-> TRUE, val |-> v]

EmptyCache ==
  [dependencies |-> Unset, peerDependencies |-> Unset,
   externalDependencies |-> Unset]

NoBuilt ==
  [name |-> <<>>, description |-> <<>>, version |-> <<>>, type |-> <<>>,
   main |-> <<>>, module |-> <<>>, types |-> <<>>,
   dependencies |-> <<>>, peerDependencies |-> <<>>]

NoRet == [op |-> "none", again |-> FALSE, str |-> <<>>, obj |-> <<>>,
          list |-> <<>>, built |-> NoBuilt]

\* Nothing has been accessed yet.
NoFirst ==
  [dependencies |-> Unset, peerDependencies |-> Unset,
   externalDependencies |-> Unset,
   build |-> [set |-> FALSE, val |-> NoBuilt]]

\* The record of first accesses once `attribute` has returned val.
Noted(f, attribute, val) ==
  IF f[attribute].set THEN f
  ELSE [f EXCEPT ![attribute] = [set |-> TRUE, val |-> val]]

\* The record of first accesses once build() has returned built: build()
\* reads the dependencies and peerDependencies attributes.
NotedBuild(f, built) ==
  Noted(Noted(Noted(f, "dependencies", built.dependencies),
              "peerDependencies", built.peerDependencies),
        "build", built)

\* ------------------------------------------ PackageJson: the getters

\* Each getter yields the value it returns and the caches it leaves.

\* get dependencies().
dependencies(j, ex, c) ==
  IF ~c.dependencies.set
  THEN IF ~isObject(j.dependencies)
       THEN [val |-> <<>>, cache |-> c]
       ELSE LET entries == computeDependencies(j, ex)
            IN [val |-> entries,
                cache |-> [c EXCEPT !.dependencies = Cached(entries)]]
  ELSE [val |-> c.dependencies.val, cache |-> c]

\* get peerDependencies().
peerDependencies(j, c) ==
  IF ~c.peerDependencies.set
  THEN IF ~isObject(j.peerDependencies)
       THEN [val |-> <<>>, cache |-> c]
       ELSE LET entries == computePeerDependencies(j)
            IN [val |-> entries,
                cache |-> [c EXCEPT !.peerDependencies = Cached(entries)]]
  ELSE [val |-> c.peerDependencies.val, cache |-> c]

\* A variant of externalDependencies that caches the list as it is before it
\* is sorted.
externalDependencies_cachesUnsorted(j, ex, c) ==
  IF ~c.externalDependencies.set
  THEN [val |-> computeExternalDependencies(j, ex),
        cache |-> [c EXCEPT !.externalDependencies =
                              Cached(computeExternalDependencies_noSet(j, ex))]]
  ELSE [val |-> c.externalDependencies.val, cache |-> c]

\* get externalDependencies().
externalDependencies(j, ex, c) ==
  IF ~c.externalDependencies.set
  THEN LET names == computeExternalDependencies(j, ex)
       IN [val |-> names,
           cache |-> [c EXCEPT !.externalDependencies = Cached(names)]]
  ELSE [val |-> c.externalDependencies.val, cache |-> c]

\* PackageJson.build(): the transformed manifest, and the caches it leaves.
build(j, ex, c) ==
  LET deps == dependencies(j, ex, c)
      peer == peerDependencies(j, deps.cache)
  IN [val |-> [name |-> StringOrEmpty(j.name),
               description |-> StringOrEmpty(j.description),
               version |-> version(j),
               type |-> <<"module">>,
               main |-> main(j),
               module |-> module(j),
               types |-> types(j),
               dependencies |-> deps.val,
               peerDependencies |-> peer.val],
      cache |-> peer.cache]

\* ------------------------------------------ PackageJson: the actions

GetEntryPoint ==
  /\ ret' = [NoRet EXCEPT !.op = "entryPoint", !.str = entryPoint(json)]
  /\ UNCHANGED <<json, externals, cache, first, json0, buildVars>>

GetMain ==
  /\ ret' = [NoRet EXCEPT !.op = "main", !.str = main(json)]
  /\ UNCHANGED <<json, externals, cache, first, json0, buildVars>>

GetModule ==
  /\ ret' = [NoRet EXCEPT !.op = "module", !.str = module(json)]
  /\ UNCHANGED <<json, externals, cache, first, json0, buildVars>>

GetTypes ==
  /\ ret' = [NoRet EXCEPT !.op = "types", !.str = types(json)]
  /\ UNCHANGED <<json, externals, cache, first, json0, buildVars>>

GetDependencies ==
  /\ LET got == dependencies(json, externals, cache)
     IN /\ ret' = [NoRet EXCEPT !.op = "dependencies",
                                !.again = first.dependencies.set,
                                !.obj = got.val]
        /\ cache' = got.cache
        /\ first' = Noted(first, "dependencies", got.val)
  /\ UNCHANGED <<json, externals, json0, buildVars>>

GetPeerDependencies ==
  /\ LET got == peerDependencies(json, cache)
     IN /\ ret' = [NoRet EXCEPT !.op = "peerDependencies",
                                !.again = first.peerDependencies.set,
                                !.obj = got.val]
        /\ cache' = got.cache
        /\ first' = Noted(first, "peerDependencies", got.val)
  /\ UNCHANGED <<json, externals, json0, buildVars>>

GetExternalDependencies ==
  /\ LET got == externalDependencies(json, externals, cache)
     IN /\ ret' = [NoRet EXCEPT !.op = "externalDependencies",
                                !.again = first.externalDependencies.set,
                                !.list = got.val]
        /\ cache' = got.cache
        /\ first' = Noted(first, "externalDependencies", got.val)
  /\ UNCHANGED <<json, externals, json0, buildVars>>

PackageJsonBuild ==
  /\ LET got == build(json, externals, cache)
     IN /\ ret' = [NoRet EXCEPT !.op = "build",
                                !.again = first.build.set,
                                !.built = got.val]
        /\ cache' = got.cache
        /\ first' = NotedBuild(first, got.val)
  /\ UNCHANGED <<json, externals, json0, buildVars>>

\* ------------------------------------------------- the output tree

\* The output tree: the folders that exist and the files, each with what it
\* holds: "stale" (there before the build), "manifest" (the transformed
\* manifest, complete), "partial" (what a failed write left), "cjs" and "esm" (a
\* bundle), "source" (a copy of the package's file of the same relative
\* path).
EmptyFs == [dirs |-> {}, files |-> {}]

File(p, data) == [path |-> p, data |-> data]

\* p is fp or lies below it.
Under(p, fp) ==
  \/ p = fp
  \/ /\ Len(p) > Len(fp)
     /\ SubSeq(p, 1, Len(fp) + 1) = fp \o <<Slash>>

IsFile(tree, p) == \E f \in tree.files : f.path = p

\* p and the folders above it, up to the working directory or the root.
RECURSIVE Ancestors(_)
Ancestors(p) ==
  IF p = <<Dot>> \/ p = <<Slash>> \/ p = <<>> THEN {}
  ELSE {p} \cup Ancestors(Dirname(p))

\* A variant of rm that removes the folders and leaves the files.
rm_keepsFiles(tree, fp) ==
  [dirs |-> { d \in tree.dirs : ~Under(d, fp) }, files |-> tree.files]

\* rm(fp, {recursive: true, force: true}) that succeeds.
rm(tree, fp) ==
  [dirs |-> { d \in tree.dirs : ~Under(d, fp) },
   files |-> { f \in tree.files : ~Under(f.path, fp) }]

\* mkdir(fp, {recursive: true}) cannot succeed through or onto a file.
mkdirBlocked(tree, fp) == \E a \in Ancestors(fp) : IsFile(tree, a)

\* mkdir(fp, {recursive: true}) that succeeds.
mkdir(tree, fp) == [tree EXCEPT !.dirs = @ \cup Ancestors(fp)]

\* A file written whole at p.
put(tree, p, data) ==
  [tree EXCEPT !.files = { f \in @ : f.path # p } \cup {File(p, data)}]

\* The file at p removed.
unlink(tree, p) == [tree EXCEPT !.files = { f \in @ : f.path # p }]

\* ------------------------------------------------ PackageDirectory

\* The roots bin/build.ts configures.
PackageRoot == <<Dot, Slash>>
OutputRoot == <<"dist">>

\* PackageDirectory.packageDir(...fp).
packageDir(fp) == path(<<PackageRoot>> \o fp)

\* PackageDirectory.outputDir(...fp).
outputDir(fp) == path(<<OutputRoot>> \o fp)

\* ------------------------------------------------ the build's inputs

PackageJsonFile == <<"package", Dot, "json">>

\* The entries a copy list is made of.
CopyEntries ==
  { <<"docs", Slash, "a", Dot, "md">>,
    <<Dot, Slash, "docs", Slash, "a", Dot, "md">>,
    PackageJsonFile }

\* The files of the package root a copy list can name.
SourceFiles == { packageDir(<<e>>) : e \in CopyEntries }

\* The output root before the build: absent, an empty folder, or a folder
\* populated with files and a subfolder.
InitialTrees ==
  { EmptyFs,
    [dirs |-> {OutputRoot}, files |-> {}],
    [dirs |-> {OutputRoot, outputDir(<< <<"old">> >>)},
     files |-> { File(outputDir(<<PackageJsonFile>>), "stale"),
                 File(outputDir(<< <<"old", Slash, "x">> >>), "stale") }] }

\* ---------------------------------------------- the bundler's options

\* The keys of a BuildOptions object that the model follows.
OptionKeys ==
  {"target", "platform", "format", "outfile", "entryPoints", "bundle",
   "external", "plugins"}

\* A BuildOptions object holds a value or nothing under each key.
NoOption == [set |-> FALSE, val |-> <<>>]
Option(v) == [set |-> TRUE, val |-> v]

\* The BuildOptions object whose own properties are those of f.
Options(f) ==
  [k \in OptionKeys |-> IF k \in DOMAIN f THEN Option(f[k]) ELSE NoOption]

\* {}: what bin/build.ts passes as buildOptions, and SourceCode's default.
NoBuildOptions == [k \in OptionKeys |-> NoOption]

\* The object literal { ...a, ...b }.
Spread(a, b) == [k \in OptionKeys |-> IF b[k].set THEN b[k] ELSE a[k]]

\* o ?? [].
OrEmpty(o) == IF o.set THEN o.val ELSE <<>>

\* The external lists a caller supplies: a name no manifest holds, and a list
\* that repeats a name and holds a name of the manifests.
CallerExternals ==
  { << <<"x">> >>, << <<"a">>, <<"x">>, <<"a">> >> }

ExternalOptions ==
  {NoBuildOptions} \cup { Options([external |-> x]) : x \in CallerExternals }

\* The settings a caller supplies for the keys the bundler invoker sets
\* itself: none, a format, or all of them with a plugin.
InvokerKeyOptions ==
  { NoBuildOptions,
    Options([format |-> <<"iife">>]),
    Options([format |-> <<"iife">>,
             outfile |-> <<"out", Dot, "js">>,
             entryPoints |-> << <<"other", Dot, "ts">> >>,
             bundle |-> <<"false">>,
             plugins |-> <<"userPlugin">>]) }

\* The buildOptions objects a caller supplies.
BuildOptionsValues ==
  { Spread(Spread(Spread(t, pl), k), e) :
      t \in {NoBuildOptions, Options([target |-> <<"es2020">>])},
      pl \in {NoBuildOptions, Options([platform |-> <<"browser">>])},
      k \in InvokerKeyOptions,
      e \in ExternalOptions }

NoConfig ==
  [packageJson |-> "none", read |-> "none", copyFiles |-> <<>>,
   buildOptions |-> NoBuildOptions]

\* ------------------------------------------- the error policies

\* What each adapter method and the bundler invoker do with an error of an
\* underlying operation: "swallow" (catch and go on), "false" (catch and
\* return false) or "throw" (no catch: the error propagates to the caller).
\* Variants: copyFile without its catch, writeFile and #esbuildFile with one.
copyFileCatch_throw == "throw"
writeFileCatch_swallow == "swallow"
esbuildFileCatch_swallow == "swallow"

cleanFolderCatch == "swallow"
createFolderCatch == "swallow"
copyFileCatch == "false"
writeFileCatch == "throw"
esbuildFileCatch == "throw"

\* A variant of readThrows in which malformed JSON is let through.
readThrows_onlyMissing(r) == r = "missing"

\* PackageJson.read throws on a file that is missing (readFileSync) or is not
\* JSON (JSON.parse).
readThrows(r) == r \in {"missing", "malformed"}

\* ------------------------------------------------- PackageBuilder

\* A variant of StepAfter that bundles before it writes the manifest.
StepAfter_bundleFirst(step) ==
  CASE step = "clean" -> "mksrc"
    [] step = "mksrc" -> "bundle"
    [] step = "bundle" -> "manifest"
    [] step = "manifest" -> "copy"
    [] step = "copy" -> "done"

\* PackageBuilder.build(): the step that follows each step.
StepAfter(step) ==
  CASE step = "clean" -> "mksrc"
    [] step = "mksrc" -> "manifest"
    [] step = "manifest" -> "bundle"
    [] step = "bundle" -> "copy"
    [] step = "copy" -> "done"

Did(op, ok) == ops' = Append(ops, [op |-> op, ok |-> ok])

Reject(step) == pc' = "rejected" /\ error' = step

\* The outcomes of reading the manifest: none is read when a parsed manifest
\* is given; the file at a given path may be there, missing or malformed; the
\* package root's own package.json is missing, or there and well or ill
\* formed.
ReadOutcomes(source) ==
  IF source = "object" THEN {"none"}
  ELSE IF source = "path" THEN {"ok", "missing", "malformed"}
  ELSE IF packageDir(<<PackageJsonFile>>) \in pkgFiles THEN {"ok", "malformed"}
  ELSE {"missing"}

\* index.ts build(): getPackageJson, new PackageBuilder, and the call of
\* PackageBuilder.build(), which calls cleanFolder.
Construct ==
  /\ pc = "new"
  /\ \E source \in {"object", "path", "default"},
        copyFiles \in SeqsUpTo(CopyEntries, MaxCopy) :
       \E r \in ReadOutcomes(source) :
         /\ config' = [packageJson |-> source, read |-> r,
                       copyFiles |-> copyFiles,
                       buildOptions |-> NoBuildOptions]
         /\ IF readThrows(r)
            THEN Reject("read")
            ELSE pc' = "clean" /\ error' = error
  /\ UNCHANGED <<manifestVars, pkgFiles, fs, fs0, fsAfterSrc, ops, tasks, calls>>

\* FileSystem.cleanFolder: the rm, its error caught.
CleanRm ==
  /\ pc = "clean"
  /\ \E ok \in BOOLEAN :
       /\ fs' = IF ok THEN rm(fs, outputDir(<<>>)) ELSE fs
       /\ Did("rm", ok)
       /\ IF ok \/ cleanFolderCatch = "swallow"
          THEN pc' = "clean_mkdir" /\ error' = error
          ELSE Reject("clean")
  /\ UNCHANGED <<manifestVars, config, pkgFiles, fs0, fsAfterSrc, tasks, calls>>

\* FileSystem.cleanFolder: its createFolder, the error of mkdir caught.
CleanMkdir ==
  /\ pc = "clean_mkdir"
  /\ \E ok \in BOOLEAN :
       /\ ok => ~mkdirBlocked(fs, outputDir(<<>>))
       /\ fs' = IF ok THEN mkdir(fs, outputDir(<<>>)) ELSE fs
       /\ Did("mkdir", ok)
       /\ IF ok \/ createFolderCatch = "swallow"
          THEN pc' = StepAfter("clean") /\ error' = error
          ELSE Reject("clean")
  /\ UNCHANGED <<manifestVars, config, pkgFiles, fs0, fsAfterSrc, tasks, calls>>

\* FileSystem.createFolder(outputDir("src")).
CreateSrc ==
  /\ pc = "mksrc"
  /\ \E ok \in BOOLEAN :
       /\ ok => ~mkdirBlocked(fs, outputDir(<< <<"src">> >>))
       /\ fs' = IF ok THEN mkdir(fs, outputDir(<< <<"src">> >>)) ELSE fs
       /\ Did("mkdir_src", ok)
       /\ IF ok \/ createFolderCatch = "swallow"
          THEN pc' = StepAfter("mksrc") /\ error' = error
          ELSE Reject("mksrc")
  /\ fsAfterSrc' = fs'
  /\ UNCHANGED <<manifestVars, config, pkgFiles, fs0, tasks, calls>>

\* #buildPackageJson: PackageJson.build(), then FileSystem.writeFile's mkdir
\* of the parent folder.
WriteMkdir ==
  /\ pc = "manifest"
  /\ LET got == build(json, externals, cache)
     IN /\ cache' = got.cache
        /\ first' = NotedBuild(first, got.val)
  /\ \E ok \in BOOLEAN :
       /\ ok => ~mkdirBlocked(fs, Dirname(outputDir(<<PackageJsonFile>>)))
       /\ fs' = IF ok THEN mkdir(fs, Dirname(outputDir(<<PackageJsonFile>>))) ELSE fs
       /\ Did("write_mkdir", ok)
       /\ IF ok THEN pc' = "manifest_write" /\ error' = error
          ELSE IF writeFileCatch = "throw" THEN Reject("manifest")
          ELSE pc' = StepAfter("manifest") /\ error' = error
  /\ UNCHANGED <<json, externals, ret, json0,
                 config, pkgFiles, fs0, fsAfterSrc, tasks, calls>>

\* FileSystem.writeFile's write.  A write that fails leaves the file as it
\* was, or created or truncated with part of the data.
WriteFile ==
  /\ pc = "manifest_write"
  /\ \E ok \in BOOLEAN, torn \in BOOLEAN :
       /\ ok => ~torn
       /\ fs' = IF ok THEN put(fs, outputDir(<<PackageJsonFile>>), "manifest")
                ELSE IF torn THEN put(fs, outputDir(<<PackageJsonFile>>), "partial")
                ELSE fs
       /\ Did("write", ok)
       /\ IF ok \/ writeFileCatch # "throw"
          THEN pc' = StepAfter("manifest") /\ error' = error
          ELSE Reject("manifest")
  /\ UNCHANGED <<manifestVars, config, pkgFiles, fs0, fsAfterSrc, tasks, calls>>

\* SourceCode.build: the two variants.
variants(j) ==
  << [outfile |-> main(j), format |-> "cjs"],
     [outfile |-> module(j), format |-> "esm"] >>

\* SourceCode.build: the overrides it hands to #esbuildFile for a variant.
variantOverrides(variant) ==
  Options([format |-> <<variant.format>>,
           outfile |-> outputDir(<<variant.outfile>>)])

\* A variant of external in which the caller's list replaces the manifest's.
external_callerReplaces(buildOptions, overrides, manifestExternals) ==
  IF buildOptions.external.set THEN ArrayFromSet(buildOptions.external.val)
  ELSE ArrayFromSet(OrEmpty(overrides.external) \o manifestExternals)

\* #esbuildFile: the external list.
external(buildOptions, overrides, manifestExternals) ==
  ArrayFromSet(OrEmpty(buildOptions.external)
               \o OrEmpty(overrides.external)
               \o manifestExternals)

\* A variant of esbuildOptions that spreads the caller's options last.
esbuildOptions_callerLast(buildOptions, overrides, j, manifestExternals) ==
  Spread(
    Spread(
      Spread(Options([target |-> <<"node20">>, platform |-> <<"node">>]),
             overrides),
      Options([entryPoints |-> << packageDir(<<entryPoint(j)>>) >>,
               external |-> external(buildOptions, overrides, manifestExternals),
               bundle |-> <<"true">>,
               plugins |-> OrEmpty(buildOptions.plugins)
                           \o OrEmpty(overrides.plugins)
                           \o <<"dtsPlugin">>])),
    buildOptions)

\* #esbuildFile: the object handed to esbuild.
esbuildOptions(buildOptions, overrides, j, manifestExternals) ==
  Spread(
    Spread(
      Spread(Options([target |-> <<"node20">>, platform |-> <<"node">>]),
             buildOptions),
      overrides),
    Options([entryPoints |-> << packageDir(<<entryPoint(j)>>) >>,
             external |-> external(buildOptions, overrides, manifestExternals),
             bundle |-> <<"true">>,
             plugins |-> OrEmpty(buildOptions.plugins)
                         \o OrEmpty(overrides.plugins)
                         \o <<"dtsPlugin">>]))

\* SourceCode.build: one #esbuildFile call.  The bundler is a black box: it
\* writes the output file of the options it is handed, or fails and writes
\* nothing.
Esbuild(at, variant, next) ==
  /\ pc = at
  /\ LET got == externalDependencies(json, externals, cache)
         options == esbuildOptions(config.buildOptions, variantOverrides(variant),
                                   json, got.val)
     IN /\ cache' = got.cache
        /\ first' = Noted(first, "externalDependencies", got.val)
        /\ calls' = Append(calls, options)
        /\ \E ok \in BOOLEAN :
             /\ ok => ~mkdirBlocked(fs, Dirname(options.outfile.val))
             /\ fs' = IF ok
                      THEN put(mkdir(fs, Dirname(options.outfile.val)),
                               options.outfile.val, options.format.val[1])
                      ELSE fs
             /\ Did(variant.format, ok)
             /\ IF ok \/ esbuildFileCatch # "throw"
                THEN pc' = next /\ error' = error
                ELSE Reject("bundle")
  /\ UNCHANGED <<json, externals, ret, json0,
                 config, pkgFiles, fs0, fsAfterSrc, tasks>>

EsbuildCjs == Esbuild("bundle", variants(json)[1], "bundle_esm")

EsbuildEsm == Esbuild("bundle_esm", variants(json)[2], StepAfter("bundle"))

\* A variant of copyFileStart without the existsSync check.
copyFileStart_noCheck(files, source) == [pc |-> "mkdir", result |-> "pending"]

\* FileSystem.copyFile up to its first await: existsSync(source).
copyFileStart(files, source) ==
  IF source \notin files
  THEN [pc |-> "done", result |-> "false"]
  ELSE [pc |-> "mkdir", result |-> "pending"]

\* #buildCopiedFiles: the map over the copy list.  Every callback runs up to
\* its first await before the next one starts, and none has completed an
\* operation when the last one has started.
CopyStart ==
  /\ pc = "copy"
  /\ tasks' = [i \in 1..Len(config.copyFiles) |->
                 [file |-> config.copyFiles[i],
                  source |-> packageDir(<<config.copyFiles[i]>>),
                  destination |-> outputDir(<<config.copyFiles[i]>>),
                  pc |-> copyFileStart(pkgFiles,
                                       packageDir(<<config.copyFiles[i]>>)).pc,
                  result |-> copyFileStart(pkgFiles,
                                           packageDir(<<config.copyFiles[i]>>)).result]]
  /\ pc' = "copying"
  /\ Did("copy_start", TRUE)
  /\ UNCHANGED <<manifestVars, config, pkgFiles, fs, fs0, fsAfterSrc, calls,
                 error>>

\* FileSystem.copyFile: mkdir(dirname(destination)), its error caught.
CopyMkdir(i) ==
  /\ tasks[i].pc = "mkdir"
  /\ \E ok \in BOOLEAN :
       /\ ok => ~mkdirBlocked(fs, Dirname(tasks[i].destination))
       /\ fs' = IF ok THEN mkdir(fs, Dirname(tasks[i].destination)) ELSE fs
       /\ tasks' = [tasks EXCEPT ![i].pc = IF ok THEN "copy" ELSE "done",
                                 ![i].result = IF ok THEN "pending" ELSE copyFileCatch]
  /\ UNCHANGED <<manifestVars, pc, config, pkgFiles, fs0, fsAfterSrc, ops, calls,
                 error>>

\* FileSystem.copyFile: the copy, its error caught.  A copy that fails leaves
\* the destination as it was or removes it.
CopyCopy(i) ==
  /\ tasks[i].pc = "copy"
  /\ \E ok \in BOOLEAN, removed \in BOOLEAN :
       /\ ok => /\ ~removed
                /\ tasks[i].source \in pkgFiles
                /\ tasks[i].destination \notin fs.dirs
       /\ fs' = IF ok THEN put(fs, tasks[i].destination, "source")
                ELSE IF removed THEN unlink(fs, tasks[i].destination)
                ELSE fs
       /\ tasks' = [tasks EXCEPT ![i].pc = "done",
                                 ![i].result = IF ok THEN "true" ELSE copyFileCatch]
  /\ UNCHANGED <<manifestVars, pc, config, pkgFiles, fs0, fsAfterSrc, ops, calls,
                 error>>

\* Promise.all(promises) and the return of build(): fulfilled when every copy
\* has fulfilled, rejected as soon as one has rejected.
CopySettle ==
  /\ pc = "copying"
  /\ \/ \E i \in 1..Len(tasks) : tasks[i].result = "throw"
     \/ \A i \in 1..Len(tasks) : tasks[i].pc = "done"
  /\ IF \E i \in 1..Len(tasks) : tasks[i].result = "throw"
     THEN Reject("copy")
     ELSE pc' = StepAfter("copy") /\ error' = error
  /\ UNCHANGED <<manifestVars, config, pkgFiles, fs, fs0, fsAfterSrc, ops, tasks, calls>>

\* ------------------------------------------------ the specifications

\* A build of the package of BuildManifest: any set of the package's files
\* exists, and the output root is absent, empty or populated.
Init ==
  /\ json = BuildManifest
  /\ externals = <<>>
  /\ cache = EmptyCache
  /\ ret = NoRet
  /\ first = NoFirst
  /\ json0 = json
  /\ pc = "new"
  /\ config = NoConfig
  /\ pkgFiles \in SUBSET SourceFiles
  /\ fs \in InitialTrees
  /\ fs0 = fs
  /\ fsAfterSrc = EmptyFs
  /\ ops = <<>>
  /\ tasks = <<>>
  /\ calls = <<>>
  /\ error = ""

Next ==
  \/ Construct
  \/ CleanRm
  \/ CleanMkdir
  \/ CreateSrc
  \/ WriteMkdir
  \/ WriteFile
  \/ EsbuildCjs
  \/ EsbuildEsm
  \/ CopyStart
  \/ \E i \in 1..Len(tasks) : CopyMkdir(i)
  \/ \E i \in 1..Len(tasks) : CopyCopy(i)
  \/ CopySettle

Spec == Init /\ [][Next]_vars

\* No build runs: the state of the build's variables in the manifest
\* specification.
BuildIdle ==
  /\ pc = "idle"
  /\ config = NoConfig
  /\ pkgFiles = {}
  /\ fs = EmptyFs
  /\ fs0 = EmptyFs
  /\ fsAfterSrc = EmptyFs
  /\ ops = <<>>
  /\ tasks = <<>>
  /\ calls = <<>>
  /\ error = ""

\* A PackageJson object on a manifest whose `main` ranges over every short
\* string, or whose dependency maps and externals patterns range over the
\* small maps and lists.
ManifestInit ==
  /\ \/ /\ json \in { Manifest(m, NotObj("undef"), NotObj("undef"), NotObj("undef")) :
                        m \in MainValues }
        /\ externals = <<>>
     \/ /\ json \in { Manifest(Undefined, d, p, v) :
                        d \in DependenciesValues,
                        p \in PeerDependenciesValues,
                        v \in DevDependenciesValues }
        /\ externals \in SeqsUpTo(Patterns, MaxExternals)
  /\ cache = EmptyCache
  /\ ret = NoRet
  /\ first = NoFirst
  /\ json0 = json
  /\ BuildIdle

ManifestNext ==
  \/ GetEntryPoint
  \/ GetMain
  \/ GetModule
  \/ GetTypes
  \/ GetDependencies
  \/ GetPeerDependencies
  \/ GetExternalDependencies
  \/ PackageJsonBuild

SpecManifest == ManifestInit /\ [][ManifestNext]_vars

\* A SourceCode object on an output root that holds the src folder: its
\* manifest's `main` ranges over every short string under every caller's
\* options, or its manifest's dependency maps and externals patterns range
\* over the small maps and lists under the callers' external lists.
BundleInit ==
  /\ \/ /\ json \in { Manifest(m, NotObj("undef"), NotObj("undef"), NotObj("undef")) :
                        m \in MainValues }
        /\ externals = <<>>
        /\ config \in { [NoConfig EXCEPT !.packageJson = "object",
                                         !.buildOptions = bo] :
                          bo \in BuildOptionsValues }
     \/ /\ json \in { Manifest(Undefined, d, p, v) :
                        d \in DependenciesValues,
                        p \in PeerDependenciesValues,
                        v \in DevDependenciesValues }
        /\ externals \in SeqsUpTo(Patterns, MaxExternals)
        /\ config \in { [NoConfig EXCEPT !.packageJson = "object",
                                         !.buildOptions = bo] :
                          bo \in ExternalOptions }
  /\ cache = EmptyCache
  /\ ret = NoRet
  /\ first = NoFirst
  /\ json0 = json
  /\ pc = "bundle"
  /\ pkgFiles = {}
  /\ fs = [dirs |-> {OutputRoot, outputDir(<< <<"src">> >>)}, files |-> {}]
  /\ fs0 = fs
  /\ fsAfterSrc = fs
  /\ ops = <<>>
  /\ tasks = <<>>
  /\ calls = <<>>
  /\ error = ""

BundleNext ==
  \/ EsbuildCjs
  \/ EsbuildEsm

SpecBundle == BundleInit /\ [][BundleNext]_vars

\* ------------------------------------------------------ the build's log

Happened(op) == \E i \in 1..Len(ops) : ops[i].op = op
Succeeded(op) == \E i \in 1..Len(ops) : ops[i].op = op /\ ops[i].ok
Failed(op) == \E i \in 1..Len(ops) : ops[i].op = op /\ ~ops[i].ok

\* The place of each operation in a build that runs to its end.
OpRank(op) ==
  CASE op = "rm" -> 1
    [] op = "mkdir" -> 2
    [] op = "mkdir_src" -> 3
    [] op = "write_mkdir" -> 4
    [] op = "write" -> 5
    [] op = "cjs" -> 6
    [] op = "esm" -> 7
    [] op = "copy_start" -> 8

OutputPackageJson == outputDir(<<PackageJsonFile>>)

\* Something of the output tree as it was before the build is still there,
\* the output root itself aside.
Leftover ==
  \/ \E f \in fs.files : f.data = "stale"
  \/ \E d \in fs.dirs : d \in fs0.dirs /\ d # outputDir(<<>>)

\* ------------------------------------------------------------ the claims

\* C1: in every run of PackageBuilder.build() the operations happen in the
\* order rm, mkdir (clean), mkdir src, mkdir and write (manifest), bundler
\* cjs, bundler esm, copy, each one only when the one before has completed:
\* what the build has done so far is always a prefix of that order, so the
\* bundler and the copies run only after the manifest write has succeeded,
\* the copies only after both bundler invocations have, and the rm comes
\* before anything is written.
C1_StepsInOrder ==
  /\ \A j \in 1..Len(ops) : OpRank(ops[j].op) = j
  /\ Happened("cjs") \/ Happened("esm") \/ Happened("copy_start")
       => Succeeded("write")
  /\ tasks # <<>> => Happened("copy_start") /\ Succeeded("cjs") /\ Succeeded("esm")
  /\ fs # fs0 => Happened("rm")
  /\ pc = "done" => Len(ops) = 8

\* A build that ran to its end and copied a file.
C1_Witness ==
  /\ pc = "done"
  /\ \E i \in 1..Len(tasks) : tasks[i].result = "true"

\* C2: when a bundler invocation fails, build() rejects with that error, the
\* copy step never runs and no file is copied; when it is the CommonJS
\* invocation, the ES-module invocation is never started.
C2_BundlerFailureAborts ==
  Failed("cjs") \/ Failed("esm") =>
    /\ pc = "rejected"
    /\ error = "bundle"
    /\ ~Happened("copy_start")
    /\ tasks = <<>>
    /\ \A f \in fs.files : f.data # "source"
    /\ Failed("cjs") => ~Happened("esm")

\* The CommonJS invocation failed in a build whose copy list names a file
\* that exists.
C2_Witness ==
  /\ Failed("cjs")
  /\ \E i \in 1..Len(config.copyFiles) :
       packageDir(<<config.copyFiles[i]>>) \in pkgFiles

\* C3 as stated: when writing the manifest fails, build() rejects, the
\* bundler is never invoked, no file is copied, and the output tree is as the
\* clean and create-src steps left it.
C3_WriteFailureLeavesTree ==
  Failed("write_mkdir") \/ Failed("write") =>
    /\ pc = "rejected"
    /\ error = "manifest"
    /\ ~Happened("cjs") /\ ~Happened("esm") /\ ~Happened("copy_start")
    /\ tasks = <<>>
    /\ fs = fsAfterSrc

\* C3 as amended: when writing the manifest fails, build() rejects, the
\* bundler is never invoked and no file is copied; the output tree is as the
\* clean and create-src steps left it, except that writeFile may have created
\* the output root and the failed write may have created or overwritten
\* package.json, leaving it without the complete manifest.
C3_WriteFailureAborts ==
  Failed("write_mkdir") \/ Failed("write") =>
    /\ pc = "rejected"
    /\ error = "manifest"
    /\ ~Happened("cjs") /\ ~Happened("esm") /\ ~Happened("copy_start")
    /\ tasks = <<>>
    /\ fsAfterSrc.dirs \subseteq fs.dirs
    /\ fs.dirs \subseteq fsAfterSrc.dirs \cup {outputDir(<<>>)}
    /\ \A f \in fs.files :
         f \in fsAfterSrc.files \/ f = File(OutputPackageJson, "partial")
    /\ \A f \in fsAfterSrc.files :
         f \in fs.files \/ f.path = OutputPackageJson

\* The write of the manifest failed in a build with a copy list.
C3_Witness ==
  /\ Failed("write")
  /\ config.copyFiles # <<>>

\* C4: when the manifest is read from disk and the file is missing or is not
\* JSON, the build fails before it touches anything: the output tree is as it
\* was, no operation of any step has run and nothing is copied.
C4_BadManifestTouchesNothing ==
  config.read \in {"missing", "malformed"} =>
    /\ pc = "rejected"
    /\ error = "read"
    /\ fs = fs0
    /\ ops = <<>>
    /\ tasks = <<>>

\* The package root's own package.json is malformed, the output root is
\* populated and there are files to copy.
C4_Witness ==
  /\ config.packageJson = "default"
  /\ config.read = "malformed"
  /\ config.copyFiles # <<>>
  /\ fs0.files # {}
  /\ pc = "rejected"

\* C5: the copies are all started together; copyFile never rejects, so once
\* the copy step has started the build is never rejected; build() completes
\* only when every copy has settled; and then every file whose copies all
\* succeeded is at its relative path under the output root.
C5_CopiesSettleAndNeverReject ==
  /\ error # "copy"
  /\ \A i \in 1..Len(tasks) : tasks[i].result \in {"pending", "true", "false"}
  /\ Happened("copy_start") =>
       /\ pc \in {"copying", "done"}
       /\ Len(tasks) = Len(config.copyFiles)
  /\ pc = "done" =>
       /\ \A i \in 1..Len(tasks) : tasks[i].pc = "done"
       /\ \A i \in 1..Len(tasks) :
            (\A j \in 1..Len(tasks) :
               tasks[j].destination = tasks[i].destination
                 => tasks[j].result = "true")
            => File(outputDir(<<tasks[i].file>>), "source") \in fs.files

\* The build completed with one file copied and the copy of another failed.
C5_Witness ==
  /\ pc = "done"
  /\ \E i, j \in 1..Len(tasks) :
       /\ tasks[i].result = "true"
       /\ tasks[j].result = "false"
       /\ tasks[i].destination # tasks[j].destination
       /\ File(tasks[i].destination, "source") \in fs.files

\* C6 as stated: cleanFolder never raises and, when it has completed, a
\* folder exists at the path and is empty, whatever the remove and the create
\* did; and when the manifest is written the output root holds nothing left
\* over from before the build.
C6_CleanAlwaysEmpties ==
  /\ error # "clean"
  /\ Len(ops) = 2 =>
       /\ outputDir(<<>>) \in fs.dirs
       /\ fs.dirs = {outputDir(<<>>)}
       /\ fs.files = {}
  /\ Happened("write") => ~Leftover

\* C6 as amended: cleanFolder never raises; when it has completed, nothing
\* that was under the path is left if the remove succeeded, a folder exists
\* at the path if the create succeeded, and that folder is empty if both did;
\* and when the remove succeeded the output root holds nothing left over from
\* before the build when the manifest is written.
C6_CleanEmptiesWhenRemoveSucceeds ==
  /\ error # "clean"
  /\ Len(ops) = 2 =>
       /\ ops[1].ok => fs.files = {} /\ fs.dirs \subseteq {outputDir(<<>>)}
       /\ ops[2].ok => outputDir(<<>>) \in fs.dirs
  /\ Succeeded("rm") /\ Happened("write") => ~Leftover

\* cleanFolder has completed on a populated output root, the remove and the
\* create having succeeded.
C6_Witness ==
  /\ Len(ops) = 2
  /\ ops[1].ok /\ ops[2].ok
  /\ fs0.files # {}
  /\ fs = [dirs |-> {outputDir(<<>>)}, files |-> {}]

\* C7: a copyFile whose source does not exist returns false at once and
\* changes nothing: in every step in which such a copy is started or
\* advances, it ends with the result false and the output tree is as before.
C7_MissingSourceCopiesNothing ==
  [][\A i \in 1..Len(tasks') :
       (/\ tasks'[i].source \notin pkgFiles
        /\ (i > Len(tasks) \/ tasks[i] # tasks'[i]))
       => /\ tasks'[i].pc = "done"
          /\ tasks'[i].result = "false"
          /\ fs' = fs]_vars

\* A copy of a missing docs/a.md has returned false and the folder dist/docs
\* does not exist.
C7_Witness ==
  \E i \in 1..Len(tasks) :
    /\ tasks[i].source \notin pkgFiles
    /\ tasks[i].result = "false"
    /\ Dirname(tasks[i].destination) # outputDir(<<>>)
    /\ Dirname(tasks[i].destination) \notin fs.dirs

\* The entry point of the manifest as the specification defines it: the raw
\* `main` when it is a non-empty string, src/index.ts otherwise.
RawEntryPoint ==
  IF isString(json.main) /\ json.main.v # <<>>
  THEN json.main.v
  ELSE <<"src", "/", "index", ".", "ts">>

\* p with its extension replaced by suffix, its directory left as it is.
WithExtension(p, suffix) == SubSeq(p, 1, Len(p) - Len(Parse(p).ext)) \o suffix

\* p names a file by a relative path: it neither starts nor ends with "/",
\* holds no "//", and its last segment is not empty, "." or "..".
NamesAFile(p) ==
  /\ p # <<>>
  /\ p[1] # Slash
  /\ Last(p) # Slash
  /\ \A i \in 1..(Len(p) - 1) : ~(p[i] = Slash /\ p[i + 1] = Slash)
  /\ Last(Split(p)) \notin {<<Dot>>, <<Dot, Dot>>}

\* C8: the entry point is the raw `main` when that is a non-empty string and
\* src/index.ts otherwise, and, for every entry point that names a file by a
\* relative path, with or without a directory and with or without an
\* extension, main, module and types are the entry point with its extension
\* replaced by .cjs, .mjs and .d.ts, its directory unchanged.
C8_DerivedNamesKeepDirectory ==
  /\ ret.op = "entryPoint" => ret.str = RawEntryPoint
  /\ NamesAFile(RawEntryPoint) =>
       /\ ret.op = "main" =>
            ret.str = WithExtension(RawEntryPoint, <<".", "cjs">>)
       /\ ret.op = "module" =>
            ret.str = WithExtension(RawEntryPoint, <<".", "mjs">>)
       /\ ret.op = "types" =>
            ret.str = WithExtension(RawEntryPoint, <<".", "d", ".", "ts">>)

\* The names of the raw `dependencies` that match an externals pattern.
MatchedNames ==
  { n \in Range(ObjectKeys(json.dependencies)) :
      \E p \in Range(externals) : RegExpTest(p, n) }

NoKeyTwice(obj) ==
  \A i, k \in 1..Len(obj) : obj[i][1] = obj[k][1] => i = k

\* C9: the derived `dependencies` holds exactly the entries of the raw
\* `dependencies` whose name matches an externals pattern and whose version
\* is a string, each with its version; it is empty when there is no pattern
\* or the raw value is not an object.
C9_DependenciesAreMatchedStrings ==
  ret.op = "dependencies" =>
    /\ Range(ret.obj) =
         { e \in Range(ObjectEntries(json.dependencies)) :
             e[1] \in MatchedNames /\ isString(e[2]) }
    /\ NoKeyTwice(ret.obj)
    /\ externals = <<>> \/ ~isObject(json.dependencies) => ret.obj = <<>>

\* `dependencies` was read and kept an entry, while a matching entry whose
\* version is not a string and a string entry that matches no pattern were
\* dropped.
C9_Witness ==
  /\ ret.op = "dependencies"
  /\ ret.obj # <<>>
  /\ \E e \in Range(ObjectEntries(json.dependencies)) :
       e[1] \in MatchedNames /\ ~isString(e[2])
  /\ \E e \in Range(ObjectEntries(json.dependencies)) :
       e[1] \notin MatchedNames /\ isString(e[2])

\* C10: `externalDependencies` holds every key of the raw `peerDependencies`
\* and of the raw `devDependencies` and, of the keys of the raw
\* `dependencies`, exactly those that match an externals pattern; no name is
\* in it twice.
C10_ExternalDependenciesUnion ==
  ret.op = "externalDependencies" =>
    /\ Range(ret.list) =
         Range(ObjectKeys(json.peerDependencies))
         \cup Range(ObjectKeys(json.devDependencies))
         \cup MatchedNames
    /\ \A i, k \in 1..Len(ret.list) : ret.list[i] = ret.list[k] => i = k

\* `externalDependencies` was read on a manifest in which a peer dependency
\* is also a matched dependency and a dev dependency, and in which a
\* dependency matches no pattern.
C10_Witness ==
  /\ ret.op = "externalDependencies"
  /\ \E n \in MatchedNames :
       /\ n \in Range(ObjectKeys(json.peerDependencies))
       /\ n \in Range(ObjectKeys(json.devDependencies))
  /\ Range(ObjectKeys(json.dependencies)) \ MatchedNames # {}
  /\ Len(ret.list) < Len(ObjectKeys(json.dependencies))
                     + Len(ObjectKeys(json.peerDependencies))
                     + Len(ObjectKeys(json.devDependencies))

\* C11: on one PackageJson object, under every sequence of getter accesses
\* and build() calls, each of dependencies, peerDependencies and
\* externalDependencies returns what it returned when first accessed, build()
\* returns a result equal to that of the first build() call, and the raw
\* manifest is as it was passed to the constructor.
C11_AccessesRepeatAndRawUntouched ==
  /\ json = json0
  /\ ret.op = "dependencies" => ret.obj = first.dependencies.val
  /\ ret.op = "peerDependencies" => ret.obj = first.peerDependencies.val
  /\ ret.op = "externalDependencies" => ret.list = first.externalDependencies.val
  /\ ret.op = "build" =>
       /\ ret.built = first.build.val
       /\ ret.built.dependencies = first.dependencies.val
       /\ ret.built.peerDependencies = first.peerDependencies.val

\* build() was called a second time, on a manifest whose derived
\* dependencies, peerDependencies and externalDependencies all hold a name
\* and have all been accessed.
C11_Witness ==
  /\ ret.op = "build"
  /\ ret.again
  /\ ret.built.dependencies # <<>>
  /\ ret.built.peerDependencies # <<>>
  /\ first.externalDependencies.set
  /\ Len(first.externalDependencies.val) > 1

\* C12: in the configuration handed to the bundler for each variant, target
\* and platform are the caller's when the caller supplies them and node20 and
\* node otherwise; whatever the caller supplies as format, outfile,
\* entryPoints or bundle, the format is cjs with the outfile at the
\* manifest's `main` under the output root in the first invocation and esm
\* at its `module` in the second, the entry point is the manifest's entry
\* point under the package root, and bundle is true.
C12_OptionsPrecedence ==
  /\ Len(calls) <= 2
  /\ \A i \in 1..Len(calls) :
       /\ calls[i].target = IF config.buildOptions.target.set
                            THEN config.buildOptions.target
                            ELSE Option(<<"node20">>)
       /\ calls[i].platform = IF config.buildOptions.platform.set
                              THEN config.buildOptions.platform
                              ELSE Option(<<"node">>)
       /\ calls[i].format = Option(<<IF i = 1 THEN "cjs" ELSE "esm">>)
       /\ calls[i].outfile =
            Option(outputDir(<<IF i = 1 THEN main(json) ELSE module(json)>>))
       /\ calls[i].entryPoints = Option(<< packageDir(<<entryPoint(json)>>) >>)
       /\ calls[i].bundle = Option(<<"true">>)

\* Both variants were handed to the bundler for a caller who supplies a
\* target, no platform, and a format, an outfile, entry points and a bundle
\* setting of their own, on a manifest whose `main` has a directory.
C12_Witness ==
  /\ Len(calls) = 2
  /\ config.buildOptions.target.set
  /\ ~config.buildOptions.platform.set
  /\ config.buildOptions.format.set
  /\ config.buildOptions.outfile.set
  /\ config.buildOptions.entryPoints.set
  /\ config.buildOptions.bundle.set
  /\ Parse(entryPoint(json)).dir # <<>>
  /\ calls[1].target = Option(<<"es2020">>)
  /\ calls[2].format = Option(<<"esm">>)

\* C13: in every bundler invocation the external list holds no name twice
\* and holds exactly the names of the caller's external list and of the
\* manifest's externalDependencies (the variants' overrides supply none); so
\* every name the caller supplies and every peer and dev dependency name of
\* the manifest is in it, and the ES-module invocation gets the same list as
\* the CommonJS invocation.
C13_ExternalsUnion ==
  \A i \in 1..Len(calls) :
    /\ calls[i].external.set
    /\ Range(calls[i].external.val) =
         Range(OrEmpty(config.buildOptions.external))
         \cup Range(ObjectKeys(json.peerDependencies))
         \cup Range(ObjectKeys(json.devDependencies))
         \cup MatchedNames
    /\ \A m, n \in 1..Len(calls[i].external.val) :
         calls[i].external.val[m] = calls[i].external.val[n] => m = n
    /\ calls[i].external = calls[1].external

\* Both variants were handed to the bundler for a caller whose external list
\* repeats a name that is also a peer dependency and holds a name of its
\* own, on a manifest with a dev dependency and a dependency that matches no
\* pattern.
C13_Witness ==
  /\ Len(calls) = 2
  /\ \E m, n \in 1..Len(OrEmpty(config.buildOptions.external)) :
       /\ m # n
       /\ config.buildOptions.external.val[m] = config.buildOptions.external.val[n]
       /\ config.buildOptions.external.val[m]
            \in Range(ObjectKeys(json.peerDependencies))
  /\ Range(OrEmpty(config.buildOptions.external))
       \ Range(computeExternalDependencies(json, externals)) # {}
  /\ Range(ObjectKeys(json.devDependencies)) # {}
  /\ Range(ObjectKeys(json.dependencies)) \ MatchedNames # {}

\* C14: whenever build() has completed, the file package.json under the
\* output root holds the transformed manifest that the manifest step wrote,
\* whatever the copy list names.
C14_ManifestSurvivesCopies ==
  pc = "done" => File(OutputPackageJson, "manifest") \in fs.files

\* A copy operation that has started and has not returned.
InFlight(i) == tasks[i].pc # "done"

\* C15: in the copy step, any two copy operations that are in flight at the
\* same time have different source/destination pairs and different
\* destinations, whatever the copy list holds.
C15_CopiesHaveDistinctDestinations ==
  \A i, k \in 1..Len(tasks) :
    i # k /\ InFlight(i) /\ InFlight(k) =>
      /\ <<tasks[i].source, tasks[i].destination>>
           # <<tasks[k].source, tasks[k].destination>>
      /\ tasks[i].destination # tasks[k].destination

====
